---------------------------- MODULE Spec2Model ----------------------------
(***************************************************************************)
(* A model of the bank-account ledger service: the Account and             *)
(* AccountManager classes of account.py and the four Flask endpoints of    *)
(* app.py.                                                                  *)
(*                                                                         *)
(* Values are modelled as the interpreter holds them:                      *)
(*   - a text is a sequence of one-character strings;                      *)
(*   - a decimal.Decimal is its as_tuple(): sign, digits, exponent;        *)
(*   - a finite float (IEEE 754 binary64) or int is a sign and the set of  *)
(*     the positions of the 1 bits of its magnitude: the value of          *)
(*     [s |-> 0, b |-> {1, -1}] is 2^1 + 2^-1 = 2.5.  The arithmetic on    *)
(*     these sets is exact; a float operation is the exact operation       *)
(*     followed by rounding to 53 significant bits, ties to even.          *)
(***************************************************************************)
EXTENDS Integers, Sequences, FiniteSets, TLC

----------------------------------------------------------------------------
(* Sets of bit positions: exact arithmetic on non-negative dyadic numbers. *)

MinOf(S) == CHOOSE x \in S : \A y \in S : x <= y

MaxOf(S) == 0 - MinOf({0 - x : x \in S})

Pow(base, k) == base ^ k

\* The bits of a natural number below 2^31.
DOfNat(n) == {i \in 0..30 : (n \div Pow(2, i)) % 2 = 1}

DShift(S, k) == {i + k : i \in S}

\* S + T.  The carry into bit i comes from the nearest lower bit that does
\* not just pass a carry on (a bit set in both or in neither): there is one
\* exactly when that bit is set in both.
DAdd(S, T) ==
    IF S = {} THEN T
    ELSE IF T = {} THEN S
    ELSE LET lo == MinOf(S \cup T)
             hi == MaxOf(S \cup T) + 1
             pass == (S \cup T) \ (S \cap T)
             carry(i) == MaxOf({k \in (lo - 1)..(i - 1) : k \notin pass}) \in S \cap T
         IN  {i \in lo..hi : (i \in pass) # carry(i)}

\* S - T for S >= T.  The borrow into bit i comes from the nearest lower bit
\* where S and T differ: there is one exactly when that bit is set in T.
DSub(S, T) ==
    IF T = {} THEN S
    ELSE LET lo == MinOf(S \cup T)
             hi == MaxOf(S \cup T)
             diff == (S \cup T) \ (S \cap T)
             lower(i) == {k \in diff : k < i}
             borrow(i) == lower(i) # {} /\ MaxOf(lower(i)) \in T
         IN  {i \in lo..hi : (i \in diff) # borrow(i)}

DLt(S, T) == S # T /\ MaxOf((S \cup T) \ (S \cap T)) \in T

DLe(S, T) == S = T \/ DLt(S, T)

\* S * 10^k, k >= 0.
RECURSIVE DMul10(_, _)
DMul10(S, k) ==
    IF k = 0 THEN S ELSE DMul10(DAdd(DShift(S, 3), DShift(S, 1)), k - 1)

\* The natural number written by a sequence of decimal digits.
RECURSIVE DOfDigits(_)
DOfDigits(ds) ==
    IF ds = <<>> THEN {}
    ELSE DAdd(DMul10(DOfDigits(SubSeq(ds, 1, Len(ds) - 1)), 1),
              DOfNat(ds[Len(ds)]))

\* The natural number below 2^31 with the bits S.
RECURSIVE NatOfBits(_)
NatOfBits(S) ==
    IF S = {} THEN 0
    ELSE LET i == MaxOf(S) IN Pow(2, i) + NatOfBits(S \ {i})

\* Long division of N by the small natural D (D < 2^22), DivChunk bits at a
\* time, from the bits that end at bit hi down to bit lo: the quotient's
\* bits and the remainder.
DivChunk == 8

RECURSIVE LongDiv(_, _, _, _, _, _)
LongDiv(N, D, hi, lo, rem, Q) ==
    IF hi < lo THEN [q |-> Q, r |-> rem]
    ELSE LET low == hi - (DivChunk - 1)
             chunk == {i - low : i \in {j \in N : low <= j /\ j <= hi}}
             r2 == rem * Pow(2, DivChunk) + NatOfBits(chunk)
         IN  LongDiv(N, D, low - 1, lo, r2 % D,
                     Q \cup DShift(DOfNat(r2 \div D), low))

----------------------------------------------------------------------------
(* Python float: IEEE 754 binary64.                                        *)

FloatBits == 53
FloatMaxExp == 1023
FloatMinExp == -1074

PyNaN == [t |-> "nan"]
PyInf(sign) == [t |-> "inf", s |-> sign]
PyFloat(sign, bits) == [t |-> "float", s |-> IF bits = {} THEN 0 ELSE sign, b |-> bits]
PyInt(sign, bits) == [t |-> "int", s |-> IF bits = {} THEN 0 ELSE sign, b |-> bits]
PyBool(v) == [t |-> "bool", v |-> v]
PyStr(chars) == [t |-> "str", c |-> chars]
PyNone == [t |-> "none"]
PyList(items) == [t |-> "list", l |-> items]
PyDict(fields) == [t |-> "dict", d |-> fields]

\* The exact magnitude S (plus something below its lowest bit when sticky)
\* rounded to the nearest float, ties to even; beyond the largest float, inf.
RoundToFloat(sign, S, sticky) ==
    IF S = {} THEN PyFloat(0, {})
    ELSE LET hi == MaxOf(S)
             lo == IF hi - (FloatBits - 1) < FloatMinExp THEN FloatMinExp
                   ELSE hi - (FloatBits - 1)
             keep == {i \in S : i >= lo}
             guard == (lo - 1) \in S
             rest == sticky \/ \E i \in S : i < lo - 1
             up == guard /\ (rest \/ lo \in S)
             r == IF up THEN DAdd(keep, {lo}) ELSE keep
         IN  IF r # {} /\ MaxOf(r) > FloatMaxExp THEN PyInf(sign)
             ELSE PyFloat(sign, r)


----------------------------------------------------------------------------
(* Texts, and decimal.Decimal as app.py uses it.                           *)

DigitChars == <<"0", "1", "2", "3", "4", "5", "6", "7", "8", "9">>

IsDigit(c) == \E i \in 1..10 : DigitChars[i] = c

DigitVal(c) == (CHOOSE i \in 1..10 : DigitChars[i] = c) - 1

AllDigits(s) == \A i \in 1..Len(s) : IsDigit(s[i])

Lower(c) ==
    CASE c = "A" -> "a" [] c = "E" -> "e" [] c = "F" -> "f" [] c = "I" -> "i"
      [] c = "N" -> "n" [] c = "S" -> "s" [] c = "T" -> "t" [] c = "Y" -> "y"
      [] OTHER -> c

LowerSeq(s) == [i \in 1..Len(s) |-> Lower(s[i])]

\* The natural number a short text of digits writes.
RECURSIVE NatOfText(_)
NatOfText(s) ==
    IF s = <<>> THEN 0
    ELSE 10 * NatOfText(SubSeq(s, 1, Len(s) - 1)) + DigitVal(s[Len(s)])

\* str(n) for a natural number: its decimal digits.
RECURSIVE StrOfNat(_)
StrOfNat(n) ==
    IF n < 10 THEN <<DigitChars[n + 1]>>
    ELSE Append(StrOfNat(n \div 10), DigitChars[(n % 10) + 1])

\* str(n) for an int.
StrOfInt(n) == IF n < 0 THEN <<"-">> \o StrOfNat(0 - n) ELSE StrOfNat(n)

RECURSIVE StripZeros(_)
StripZeros(ds) ==
    IF Len(ds) > 1 /\ ds[1] = 0 THEN StripZeros(Tail(ds)) ELSE ds

\* A Decimal: kind is "finite", "inf", "nan" (quiet) or "snan"; sign, digits
\* and exp are those of as_tuple() (for "inf" and the NaNs as_tuple() gives
\* the exponents 'F', 'n' and 'N', which are not numbers: exp is then unused).
DecFinite(sign, digits, exp) ==
    [kind |-> "finite", sign |-> sign, digits |-> digits, exp |-> exp]

DecSpecial(kind, sign) ==
    [kind |-> kind, sign |-> sign, digits |-> <<0>>, exp |-> 0]

DecInvalid == [kind |-> "invalid", sign |-> 0, digits |-> <<0>>, exp |-> 0]

\* The numeric-string syntax Decimal(str) accepts, for texts without
\* surrounding whitespace and underscores:
\*   [sign] (digits [. [digits]] | . digits) [(e|E) [sign] digits]
\*   [sign] (inf | infinity | nan | snan), in any letter case.
\* Any other text raises InvalidOperation: DecInvalid.
ParseNumber(sign, body) ==
    LET low == LowerSeq(body)
        es == {i \in 1..Len(low) : low[i] = "e"}
        mant == IF es = {} THEN body ELSE SubSeq(body, 1, MinOf(es) - 1)
        expo == IF es = {} THEN <<>> ELSE SubSeq(body, MinOf(es) + 1, Len(body))
        esigned == expo # <<>> /\ expo[1] \in {"+", "-"}
        edigits == IF esigned THEN Tail(expo) ELSE expo
        eok == es = {} \/ (edigits # <<>> /\ AllDigits(edigits))
        dots == {i \in 1..Len(mant) : mant[i] = "."}
        int == IF dots = {} THEN mant ELSE SubSeq(mant, 1, MinOf(dots) - 1)
        frac == IF dots = {} THEN <<>>
                ELSE SubSeq(mant, MinOf(dots) + 1, Len(mant))
        mok == AllDigits(int) /\ AllDigits(frac) /\ Len(int) + Len(frac) >= 1
        all == int \o frac
    IN  IF eok /\ mok
        THEN LET e == IF es = {} THEN 0
                      ELSE IF expo[1] = "-" THEN 0 - NatOfText(edigits)
                      ELSE NatOfText(edigits)
             IN  DecFinite(sign,
                           StripZeros([i \in 1..Len(all) |-> DigitVal(all[i])]),
                           e - Len(frac))
        ELSE DecInvalid

Decimal(text) ==
    LET signed == text # <<>> /\ text[1] \in {"+", "-"}
        sign == IF signed /\ text[1] = "-" THEN 1 ELSE 0
        body == IF signed THEN Tail(text) ELSE text
        low == LowerSeq(body)
    IN  IF low \in {<<"i", "n", "f">>, <<"i", "n", "f", "i", "n", "i", "t", "y">>}
        THEN DecSpecial("inf", sign)
        ELSE IF low = <<"n", "a", "n">> THEN DecSpecial("nan", sign)
        ELSE IF low = <<"s", "n", "a", "n">> THEN DecSpecial("snan", sign)
        ELSE ParseNumber(sign, body)

DecIsZero(d) == d.kind = "finite" /\ \A i \in 1..Len(d.digits) : d.digits[i] = 0

Zeros(n) == [i \in 1..n |-> 0]

\* The digits of a finite non-negative d as a natural number of units
\* 10^e, for e <= d.exp.
DecScaled(d, e) == StripZeros(d.digits \o Zeros(d.exp - e))

\* Two digit sequences without leading zeros, as naturals: a > b.
RECURSIVE DigitsGt(_, _)
DigitsGt(a, b) ==
    IF Len(a) # Len(b) THEN Len(a) > Len(b)
    ELSE IF a = <<>> THEN FALSE
    ELSE IF a[1] # b[1] THEN a[1] > b[1]
    ELSE DigitsGt(Tail(a), Tail(b))

\* d > m for finite non-negative Decimals.
DecGt(d, m) ==
    LET e == IF d.exp < m.exp THEN d.exp ELSE m.exp
    IN  DigitsGt(DecScaled(d, e), DecScaled(m, e))

\* float(d), for a finite or infinite d: the float nearest
\* digits * 10^exp.  A negative exponent divides by 10^-exp < 2^22.
FloatOfDecimal(d) ==
    IF d.kind = "inf" THEN PyInf(d.sign)
    ELSE IF d.kind # "finite" THEN PyNaN
    ELSE LET N == DOfDigits(d.digits)
         IN  IF N = {} THEN PyFloat(0, {})
             ELSE IF d.exp >= 0 THEN RoundToFloat(d.sign, DMul10(N, d.exp), FALSE)
             ELSE LET qr == LongDiv(N, Pow(10, 0 - d.exp), MaxOf(N),
                                    MaxOf(N) - 22 - FloatBits - 2, 0, {})
                  IN  RoundToFloat(d.sign, qr.q, qr.r # 0)

----------------------------------------------------------------------------
(* Python arithmetic and comparison on the values a balance can hold.      *)

IsNumber(v) == v.t \in {"int", "float", "bool", "inf", "nan"}

\* float(v) for an int or bool v; a float is itself.
AsFloat(v) ==
    IF v.t = "bool" THEN PyFloat(0, IF v.v THEN {0} ELSE {})
    ELSE IF v.t = "int" THEN RoundToFloat(v.s, v.b, FALSE)
    ELSE v

\* The sign and exact magnitude of a finite number.
SignOf(v) == IF v.t = "bool" THEN 0 ELSE v.s
BitsOf(v) == IF v.t = "bool" THEN (IF v.v THEN {0} ELSE {}) ELSE v.b
IsFinite(v) == v.t \in {"int", "float", "bool"}

\* x + y for floats x and y.
FloatAdd(x, y) ==
    IF x.t = "nan" \/ y.t = "nan" THEN PyNaN
    ELSE IF x.t = "inf" /\ y.t = "inf"
         THEN (IF x.s = y.s THEN x ELSE PyNaN)
    ELSE IF x.t = "inf" THEN x
    ELSE IF y.t = "inf" THEN y
    ELSE IF x.s = y.s THEN RoundToFloat(x.s, DAdd(x.b, y.b), FALSE)
    ELSE IF DLe(y.b, x.b) THEN RoundToFloat(x.s, DSub(x.b, y.b), FALSE)
    ELSE RoundToFloat(y.s, DSub(y.b, x.b), FALSE)

FloatNeg(x) ==
    IF x.t = "nan" THEN x
    ELSE IF x.t = "inf" THEN PyInf(1 - x.s)
    ELSE PyFloat(1 - x.s, x.b)

\* x < y for numbers (exact, also between an int and a float); FALSE when
\* either is a NaN.
NumLt(x, y) ==
    IF x.t = "nan" \/ y.t = "nan" THEN FALSE
    ELSE IF x.t = "inf" THEN x.s = 1 /\ ~(y.t = "inf" /\ y.s = 1)
    ELSE IF y.t = "inf" THEN y.s = 0
    ELSE LET xs == SignOf(x) ys == SignOf(y) xb == BitsOf(x) yb == BitsOf(y)
         IN  IF xs # ys THEN xs = 1
             ELSE IF xs = 0 THEN DLt(xb, yb) ELSE DLt(yb, xb)

NumEq(x, y) ==
    IF x.t = "nan" \/ y.t = "nan" THEN FALSE
    ELSE IF x.t = "inf" \/ y.t = "inf" THEN x.t = y.t /\ x.s = y.s
    ELSE SignOf(x) = SignOf(y) /\ BitsOf(x) = BitsOf(y)

NumLe(x, y) == NumLt(x, y) \/ NumEq(x, y)


\* x + y where y is a float: an int or bool x is converted to float first.
PyAdd(x, y) == FloatAdd(AsFloat(x), AsFloat(y))

\* x - y where y is a float.
PySub(x, y) == FloatAdd(AsFloat(x), FloatNeg(AsFloat(y)))

PyZero == PyInt(0, {})

\* str(v) for the values a request can carry as its amount.
StrOfPy(v) ==
    CASE v.t = "str" -> v.c
      [] v.t = "int" -> StrOfInt(IF v.s = 1 THEN 0 - NatOfBits(v.b) ELSE NatOfBits(v.b))
      [] v.t = "nan" -> <<"n", "a", "n">>
      [] v.t = "inf" -> IF v.s = 1 THEN <<"-", "i", "n", "f">> ELSE <<"i", "n", "f">>
      [] v.t = "none" -> <<"N", "o", "n", "e">>
      [] v.t = "bool" -> IF v.v THEN <<"T", "r", "u", "e">>
                         ELSE <<"F", "a", "l", "s", "e">>

\* key in data, for a text key: "yes", "no", or "raise" (TypeError) when data
\* is not a container.
PyIn(key, data) ==
    CASE data.t = "dict" -> IF key \in DOMAIN data.d THEN "yes" ELSE "no"
      [] data.t = "list" ->
            IF \E i \in 1..Len(data.l) : data.l[i] = PyStr(key) THEN "yes" ELSE "no"
      [] data.t = "str" ->
            IF \E i \in 0..(Len(data.c) - Len(key)) :
                   SubSeq(data.c, i + 1, i + Len(key)) = key
            THEN "yes" ELSE "no"
      [] OTHER -> "raise"

----------------------------------------------------------------------------
(* account.py                                                              *)

\* random.randint(1000, 9999)
IdMin == 1000
IdMax == 9999

\* Account.__init__ with account_number=None: draw is what random.randint
\* returns; oid is the identity of the new object.
Account_init(draw, balance, oid) ==
    [account_number |-> StrOfInt(draw), balance |-> balance, oid |-> oid]

Account_get_balance(self) == self.balance

\* Account.deposit without the test of amount > 0.
Account_deposit_any(self, amount) ==
    IF IsNumber(self.balance) /\ IsNumber(amount)
    THEN [raised |-> FALSE,
          self |-> [self EXCEPT !.balance = PyAdd(self.balance, amount)]]
    ELSE [raised |-> TRUE, self |-> self]

\* Account.deposit: the account afterwards; raised when the addition raises
\* TypeError (a balance that is not a number).
Account_deposit(self, amount) ==
    IF NumLt(PyZero, amount)
    THEN IF IsNumber(self.balance)
         THEN [raised |-> FALSE,
               self |-> [self EXCEPT !.balance = PyAdd(self.balance, amount)]]
         ELSE [raised |-> TRUE, self |-> self]
    ELSE [raised |-> FALSE, self |-> self]

\* Account.withdraw without the comparison with the balance: any positive
\* amount is taken.
Account_withdraw_overdraw(self, amount) ==
    IF NumLt(PyZero, amount) /\ IsNumber(self.balance)
    THEN [raised |-> FALSE, ret |-> TRUE,
          self |-> [self EXCEPT !.balance = PySub(self.balance, amount)]]
    ELSE [raised |-> FALSE, ret |-> FALSE, self |-> self]

\* Account.withdraw taking the amount before it compares it with the
\* balance: a refused withdrawal has changed the balance.
Account_withdraw_early(self, amount) ==
    IF NumLt(PyZero, amount) /\ IsNumber(self.balance)
    THEN [raised |-> FALSE, ret |-> NumLe(amount, self.balance),
          self |-> [self EXCEPT !.balance = PySub(self.balance, amount)]]
    ELSE [raised |-> FALSE, ret |-> FALSE, self |-> self]

\* Account.withdraw: the account afterwards and the value returned; raised
\* when the comparison with the balance raises TypeError.
Account_withdraw(self, amount) ==
    IF ~NumLt(PyZero, amount)
    THEN [raised |-> FALSE, ret |-> FALSE, self |-> self]
    ELSE IF ~IsNumber(self.balance)
    THEN [raised |-> TRUE, ret |-> FALSE, self |-> self]
    ELSE IF NumLe(amount, self.balance)
    THEN [raised |-> FALSE, ret |-> TRUE,
          self |-> [self EXCEPT !.balance = PySub(self.balance, amount)]]
    ELSE [raised |-> FALSE, ret |-> FALSE, self |-> self]

\* AccountManager.create_account storing the account under a key that is
\* not its account number.
AccountManager_create_account_other_key(accts, draw, balance, oid) ==
    LET account == Account_init(draw, balance, oid)
        key == StrOfInt(IdMax)
    IN  [accounts |-> [k \in DOMAIN accts \cup {key} |->
                           IF k = key THEN account ELSE accts[k]],
         account |-> account]

\* AccountManager.create_account keeping the account already stored under
\* the number drawn (setdefault).
AccountManager_create_account_keep_first(accts, draw, balance, oid) ==
    LET account == Account_init(draw, balance, oid)
        key == account.account_number
    IN  [accounts |-> [k \in DOMAIN accts \cup {key} |->
                           IF k \in DOMAIN accts THEN accts[k] ELSE account],
         account |-> account]

\* AccountManager.create_account: the mapping afterwards and the account.
AccountManager_create_account(accts, draw, balance, oid) ==
    LET account == Account_init(draw, balance, oid)
        key == account.account_number
    IN  [accounts |-> [k \in DOMAIN accts \cup {key} |->
                           IF k = key THEN account ELSE accts[k]],
         account |-> account]

\* AccountManager.get_account looking the number up without str(): the
\* keys are strings, so nothing is found.
AccountManager_get_account_no_str(accts, account_number) ==
    [found |-> FALSE, account |-> PyNone]

\* AccountManager.get_account: dict.get, None when the key is absent.
AccountManager_get_account(accts, account_number) ==
    IF account_number \in DOMAIN accts
    THEN [found |-> TRUE, account |-> accts[account_number]]
    ELSE [found |-> FALSE, account |-> PyNone]

\* The mapping when balance is an attribute of the class, shared by every
\* Account: all accounts get the balance of the one written.
Stored_shared(accts, key, account) ==
    [k \in DOMAIN accts |->
        IF k = key THEN account
        ELSE [accts[k] EXCEPT !.balance = account.balance]]

\* The mapping with the account stored under key replaced (the handlers
\* mutate the Account object the mapping refers to).
Stored(accts, key, account) == [accts EXCEPT ![key] = account]

----------------------------------------------------------------------------
(* app.py: the four endpoints.  A handler is given the mapping and the      *)
(* request (the path's account number, and data: what request.get_json()   *)
(* returns, None for a missing body, a body that is not JSON, or null) and *)
(* yields the response and the mapping afterwards.  An exception that no   *)
(* handler catches is Flask's 500 response, outcome "Unhandled".           *)

AmountKey == <<"a", "m", "o", "u", "n", "t">>
BalanceKey == <<"b", "a", "l", "a", "n", "c", "e">>

\* MAX_AMOUNT = Decimal('99999999')
MAX_AMOUNT == Decimal(<<"9", "9", "9", "9", "9", "9", "9", "9">>)

\* The balance parameter's default, 0.0.
DefaultBalance == PyFloat(0, {})

Response(status, outcome, account_number, balance) ==
    [status |-> status, outcome |-> outcome,
     account_number |-> account_number, balance |-> balance]

Failure(status, outcome, accts) ==
    [resp |-> Response(status, outcome, <<>>, PyNone), accounts |-> accts,
     created |-> FALSE]

Unhandled(accts) == Failure(500, "Unhandled", accts)

\* POST /accounts
create_account(accts, data, draw, oid) ==
    IF data.t = "none" THEN Failure(400, "MalformedRequest", accts)
    ELSE IF data.t # "dict" THEN Unhandled(accts)      \* data.get: AttributeError
    ELSE LET balance == IF BalanceKey \in DOMAIN data.d THEN data.d[BalanceKey]
                        ELSE DefaultBalance
             made == AccountManager_create_account(accts, draw, balance, oid)
         IN  [resp |-> Response(201, "Created", made.account.account_number,
                                made.account.balance),
              accounts |-> made.accounts, created |-> TRUE]

\* GET /accounts/<account_number>/balance emptying the account it reads.
get_balance_clearing(accts, account_number) ==
    LET got == AccountManager_get_account(accts, account_number)
    IN  IF ~got.found THEN Failure(404, "AccountNotFound", accts)
        ELSE [resp |-> Response(200, "OK", <<>>, Account_get_balance(got.account)),
              accounts |-> Stored(accts, account_number,
                                  [got.account EXCEPT !.balance = DefaultBalance]),
              created |-> FALSE]

\* GET /accounts/<account_number>/balance
get_balance(accts, account_number) ==
    LET got == AccountManager_get_account(accts, account_number)
    IN  IF ~got.found THEN Failure(404, "AccountNotFound", accts)
        ELSE [resp |-> Response(200, "OK", <<>>, Account_get_balance(got.account)),
              accounts |-> accts, created |-> FALSE]

\* POST /accounts/<account_number>/deposit
deposit(accts, account_number, data) ==
    LET got == AccountManager_get_account(accts, account_number)
    IN  IF ~got.found THEN Failure(404, "AccountNotFound", accts)
        ELSE IF data.t = "none" THEN Failure(400, "MalformedRequest", accts)
        ELSE IF PyIn(AmountKey, data) = "raise" THEN Unhandled(accts)
        ELSE IF PyIn(AmountKey, data) = "no" THEN Failure(400, "MissingAmount", accts)
        ELSE IF data.t # "dict" THEN Unhandled(accts)  \* data.get: AttributeError
        ELSE LET d == Decimal(StrOfPy(data.d[AmountKey]))
             IN  IF d.kind = "invalid"
                 THEN Failure(400, "InvalidAmountFormat", accts)
                 \* d < 0 with a NaN raises InvalidOperation, outside the try
                 ELSE IF d.kind \in {"nan", "snan"} THEN Unhandled(accts)
                 ELSE IF d.sign = 1 /\ ~DecIsZero(d)
                 THEN Failure(400, "NegativeAmount", accts)
                 ELSE IF DecIsZero(d) THEN Failure(400, "ZeroAmount", accts)
                 \* as_tuple().exponent is 'F': 'F' < -2 raises TypeError
                 ELSE IF d.kind = "inf" THEN Unhandled(accts)
                 ELSE IF d.exp < -2
                 THEN Failure(400, "TooManyDecimalPlaces", accts)
                 ELSE IF DecGt(d, MAX_AMOUNT)
                 THEN Failure(400, "AmountTooLarge", accts)
                 ELSE LET done == Account_deposit(got.account, FloatOfDecimal(d))
                      IN  IF done.raised THEN Unhandled(accts)
                          ELSE [resp |-> Response(200, "OK", <<>>,
                                                  Account_get_balance(done.self)),
                                accounts |-> Stored(accts, account_number, done.self),
                                created |-> FALSE]

\* POST /accounts/<account_number>/withdraw
withdraw(accts, account_number, data) ==
    LET got == AccountManager_get_account(accts, account_number)
    IN  IF ~got.found THEN Failure(404, "AccountNotFound", accts)
        ELSE IF data.t = "none" THEN Failure(400, "MalformedRequest", accts)
        ELSE IF PyIn(AmountKey, data) = "raise" THEN Unhandled(accts)
        ELSE IF PyIn(AmountKey, data) = "no" THEN Failure(400, "MissingAmount", accts)
        ELSE IF data.t # "dict" THEN Unhandled(accts)  \* data.get: AttributeError
        ELSE LET d == Decimal(StrOfPy(data.d[AmountKey]))
             IN  IF d.kind = "invalid"
                 THEN Failure(400, "InvalidAmountFormat", accts)
                 \* d < 0 with a NaN raises InvalidOperation, outside the try
                 ELSE IF d.kind \in {"nan", "snan"} THEN Unhandled(accts)
                 ELSE IF d.sign = 1 /\ ~DecIsZero(d)
                 THEN Failure(400, "NegativeAmount", accts)
                 ELSE IF DecIsZero(d) THEN Failure(400, "ZeroAmount", accts)
                 \* as_tuple().exponent is 'F': 'F' < -2 raises TypeError
                 ELSE IF d.kind = "inf" THEN Unhandled(accts)
                 ELSE IF d.exp < -2
                 THEN Failure(400, "TooManyDecimalPlaces", accts)
                 ELSE IF DecGt(d, MAX_AMOUNT)
                 THEN Failure(400, "AmountTooLarge", accts)
                 ELSE LET done == Account_withdraw(got.account, FloatOfDecimal(d))
                      IN  IF done.raised THEN Unhandled(accts)
                          ELSE IF done.ret
                          THEN [resp |-> Response(200, "OK", <<>>,
                                                  Account_get_balance(done.self)),
                                accounts |-> Stored(accts, account_number, done.self),
                                created |-> FALSE]
                          ELSE Failure(400, "InsufficientFunds",
                                       Stored(accts, account_number, done.self))

----------------------------------------------------------------------------
(* The requests the model sends.                                           *)

\* How many requests a run of Spec makes, how many POST /accounts requests
\* open a run of SpecBodies, and how many of the ids 1000..9999 the random
\* generator draws from.
MaxRequests == 3
MaxSetup == 1
NumIds == 2

Draws == {n \in IdMin..(IdMin + NumIds - 1) : n <= IdMax}

\* The account numbers in request paths: every id that can be drawn, and
\* "9999", which is never drawn.
PathIds == {StrOfInt(n) : n \in Draws} \cup {StrOfInt(IdMax)}

\* The bodies of the POST /accounts requests of Spec: no JSON, {},
\* {"balance": 100}, {"balance": -5} and {"balance": NaN}.
LedgerCreateBodies ==
    {PyNone, PyDict(<<>>)} \cup
    {PyDict(BalanceKey :> b) :
        b \in {PyInt(0, DOfNat(100)), PyInt(1, DOfNat(5)), PyNaN}}

\* The bodies of the POST /accounts requests of SpecBodies: those, [],
\* {"balance": "abc"} and {"balance": 99999999}.
CreateBodies ==
    LedgerCreateBodies \cup
    {PyList(<<>>), PyDict(BalanceKey :> PyStr(<<"a", "b", "c">>)),
     PyDict(BalanceKey :> PyInt(0, DOfNat(99999999)))}

\* Amounts that pass every check, sent as JSON strings.
LedgerTexts ==
    {<<"0", ".", "1">>, <<"0", ".", "2">>, <<"5", "0", ".", "0", "0">>}

ValidTexts == LedgerTexts \cup {<<"2", "0", "0", ".", "0", "0">>}

\* Other amounts sent as JSON strings.
OtherTexts ==
    {<<"0", ".", "0", "0">>, <<"0", ".", "0", "0", "1">>,
     <<"1", "2", ".", "3", "4", "5">>,
     <<"1", "0", "0", "0", "0", "0", "0", "0", "0">>,
     <<"9", "9", "9", "9", "9", "9", "9", "9">>,
     <<"-", "5">>, <<"a", "b", "c">>, <<"N", "a", "N">>,
     <<"I", "n", "f", "i", "n", "i", "t", "y">>}

\* The bodies of the deposit and withdraw requests of Spec:
\* {"amount": "0.00"}, {"amount": "0.1"}, {"amount": "0.2"} and
\* {"amount": "50.00"}.
LedgerBodies ==
    {PyDict(AmountKey :> PyStr(t)) : t \in LedgerTexts \cup {<<"0", ".", "0", "0">>}}

\* The bodies of the deposit and withdraw requests of SpecBodies: no JSON,
\* {}, ["amount"], 5, and {"amount": a} for each string above, for the JSON
\* numbers 50 and NaN, and for null.
AmountBodies ==
    {PyNone, PyDict(<<>>), PyList(<<PyStr(AmountKey)>>), PyInt(0, DOfNat(5))} \cup
    {PyDict(AmountKey :> a) :
        a \in {PyStr(t) : t \in ValidTexts \cup OtherTexts} \cup
              {PyInt(0, DOfNat(50)), PyNaN, PyNone}}

----------------------------------------------------------------------------
(* The service as a state machine: one step per request.                   *)

VARIABLES
    accounts,   \* AccountManager.accounts: account number -> Account
    objects,    \* how many Account objects have been constructed
    req,        \* the last request: [op, account_number, data]
    resp,       \* the response to it
    nreq,       \* how many requests have been handled
    threads,    \* the requests being handled by concurrent threads
    manager     \* AccountManager._instance, and the references handed out

vars == <<accounts, objects, req, resp, nreq, threads, manager>>

Request(op, account_number, data) ==
    [op |-> op, account_number |-> account_number, data |-> data]

\* How many threads handle requests at the same time in SpecThreads.
NumThreads == 2

Threads == 1..NumThreads

\* A thread: where it is in its handler (pc), its request, the float handed
\* to the Account, the balance it has loaded, and its response.
Thread(pc, request, amount, tmp, response) ==
    [pc |-> pc, req |-> request, amount |-> amount, tmp |-> tmp,
     resp |-> response]

IdleThread ==
    Thread("idle", Request("none", <<>>, PyNone), PyNone, PyNone,
           Response(0, "none", <<>>, PyNone))

\* The class AccountManager: the identity of _instance (0 is None), how
\* many instances have been made, and the identities that calls of
\* AccountManager() have returned.
Manager(instance, made, refs) ==
    [instance |-> instance, made |-> made, refs |-> refs]

\* AccountManager.__new__ resetting the mapping at every construction, as
\* an __init__ with self.accounts = {} does.
AccountManager_new_reset(instance, accts, fresh) ==
    IF instance = 0
    THEN [instance |-> fresh, accounts |-> <<>>, ret |-> fresh]
    ELSE [instance |-> instance, accounts |-> <<>>, ret |-> instance]

\* AccountManager.__new__: _instance and the mapping afterwards, and the
\* instance returned; fresh is the identity of a new object.
AccountManager_new(instance, accts, fresh) ==
    IF instance = 0
    THEN [instance |-> fresh, accounts |-> <<>>, ret |-> fresh]
    ELSE [instance |-> instance, accounts |-> accts, ret |-> instance]

\* account_manager = AccountManager() has run when app.py is imported.
Init ==
    /\ accounts = <<>>
    /\ objects = 0
    /\ req = Request("none", <<>>, PyNone)
    /\ resp = Response(0, "none", <<>>, PyNone)
    /\ nreq = 0
    /\ threads = [base |-> <<>>, run |-> [t \in Threads |-> IdleThread]]
    /\ manager = Manager(1, 1, {1})

Handle(request, result) ==
    /\ req' = request
    /\ resp' = result.resp
    /\ accounts' = result.accounts
    /\ objects' = IF result.created THEN objects + 1 ELSE objects
    /\ nreq' = nreq + 1
    /\ threads' = threads
    /\ manager' = manager

\* Spec: any MaxRequests requests.
PostAccounts ==
    /\ nreq < MaxRequests
    /\ \E data \in LedgerCreateBodies, draw \in Draws :
           Handle(Request("create", <<>>, data),
                  create_account(accounts, data, draw, objects + 1))

GetBalance ==
    /\ nreq < MaxRequests
    /\ \E id \in PathIds :
           Handle(Request("balance", id, PyNone), get_balance(accounts, id))

PostDeposit ==
    /\ nreq < MaxRequests
    /\ \E id \in PathIds, data \in LedgerBodies :
           Handle(Request("deposit", id, data), deposit(accounts, id, data))

PostWithdraw ==
    /\ nreq < MaxRequests
    /\ \E id \in PathIds, data \in LedgerBodies :
           Handle(Request("withdraw", id, data), withdraw(accounts, id, data))

Next == PostAccounts \/ GetBalance \/ PostDeposit \/ PostWithdraw

Spec == Init /\ [][Next]_vars

\* SpecBodies: up to MaxSetup + 1 POST /accounts requests, then one request
\* of another kind, each with any of the bodies.
OnlyCreated == req.op \in {"none", "create"}

AnyCreate ==
    /\ OnlyCreated
    /\ nreq <= MaxSetup
    /\ \E data \in CreateBodies, draw \in Draws :
           Handle(Request("create", <<>>, data),
                  create_account(accounts, data, draw, objects + 1))

AnyBalance ==
    /\ OnlyCreated
    /\ \E id \in PathIds :
           Handle(Request("balance", id, PyNone), get_balance(accounts, id))

AnyDeposit ==
    /\ OnlyCreated
    /\ \E id \in PathIds, data \in AmountBodies :
           Handle(Request("deposit", id, data), deposit(accounts, id, data))

AnyWithdraw ==
    /\ OnlyCreated
    /\ \E id \in PathIds, data \in AmountBodies :
           Handle(Request("withdraw", id, data), withdraw(accounts, id, data))

NextBodies == AnyCreate \/ AnyBalance \/ AnyDeposit \/ AnyWithdraw

SpecBodies == Init /\ [][NextBodies]_vars

----------------------------------------------------------------------------
(* What the specification says of the service.                             *)

\* The nine errors of the specification's taxonomy.
Taxonomy ==
    {"AccountNotFound", "MalformedRequest", "MissingAmount",
     "InvalidAmountFormat", "NegativeAmount", "ZeroAmount",
     "TooManyDecimalPlaces", "AmountTooLarge", "InsufficientFunds"}

\* The body carries an amount that passes every check of the handler, and
\* the amount handed to the Account for it: float(d).
Validated(data) ==
    /\ data.t = "dict"
    /\ AmountKey \in DOMAIN data.d
    /\ LET d == Decimal(StrOfPy(data.d[AmountKey]))
       IN  /\ d.kind = "finite"
           /\ d.sign = 0
           /\ ~DecIsZero(d)
           /\ d.exp >= -2
           /\ ~DecGt(d, MAX_AMOUNT)

AmountOf(data) == FloatOfDecimal(Decimal(StrOfPy(data.d[AmountKey])))

\* The step handles a request of kind op for an account the store holds.
OnAccount(op) ==
    /\ nreq' = nreq + 1
    /\ req'.op = op
    /\ req'.account_number \in DOMAIN accounts

\* v is the real number x + y (sign 0) or x - y (sign 1), for finite x, y.
IsExactly(v, x, sign, y) ==
    /\ IsFinite(v) /\ IsFinite(x) /\ IsFinite(y)
    /\ LET xs == SignOf(x)
           ys == IF sign = 0 THEN SignOf(y) ELSE 1 - SignOf(y)
           xb == BitsOf(x)
           yb == BitsOf(y)
           e == IF xs = ys THEN [s |-> xs, b |-> DAdd(xb, yb)]
                ELSE IF DLe(yb, xb) THEN [s |-> xs, b |-> DSub(xb, yb)]
                ELSE [s |-> ys, b |-> DSub(yb, xb)]
       IN  BitsOf(v) = e.b /\ (e.b = {} \/ SignOf(v) = e.s)

\* C1: in every reachable state every account the store holds has a
\* balance that is a number and is at least 0.
BalanceNonNegative ==
    \A k \in DOMAIN accounts :
        IsNumber(accounts[k].balance) /\ NumLe(PyZero, accounts[k].balance)

\* C2: a withdraw request on an account the store holds, with a validated
\* amount greater than the balance, leaves the store as it was and is
\* answered 400 InsufficientFunds.
WithdrawRefused ==
    [][(/\ OnAccount("withdraw")
        /\ Validated(req'.data)
        /\ IsNumber(accounts[req'.account_number].balance)
        /\ NumLt(accounts[req'.account_number].balance, AmountOf(req'.data)))
       => (/\ accounts' = accounts
           /\ resp'.status = 400
           /\ resp'.outcome = "InsufficientFunds")]_vars

\* A withdrawal of more than the balance has just been refused.
WithdrawRefusedSeen ==
    /\ req.op = "withdraw"
    /\ req.account_number \in DOMAIN accounts
    /\ Validated(req.data)
    /\ IsNumber(accounts[req.account_number].balance)
    /\ NumLt(accounts[req.account_number].balance, AmountOf(req.data))
    /\ resp.outcome = "InsufficientFunds"

\* C3: a deposit request with a validated amount a, on an account the store
\* holds with a finite balance, is answered 200, leaves the balance at
\* exactly the balance before plus a, and reports that balance.
DepositAdds ==
    [][(/\ OnAccount("deposit")
        /\ Validated(req'.data)
        /\ IsFinite(accounts[req'.account_number].balance))
       => (/\ resp'.status = 200
           /\ IsExactly(accounts'[req'.account_number].balance,
                        accounts[req'.account_number].balance, 0,
                        AmountOf(req'.data))
           /\ resp'.balance = accounts'[req'.account_number].balance)]_vars

\* C4: a withdraw request with a validated amount a, 0 < a <= balance, on an
\* account the store holds, is answered 200 and leaves the balance at
\* exactly the balance before minus a.
WithdrawSubtracts ==
    [][(/\ OnAccount("withdraw")
        /\ Validated(req'.data)
        /\ IsFinite(accounts[req'.account_number].balance)
        /\ NumLe(AmountOf(req'.data), accounts[req'.account_number].balance))
       => (/\ resp'.status = 200
           /\ IsExactly(accounts'[req'.account_number].balance,
                        accounts[req'.account_number].balance, 1,
                        AmountOf(req'.data)))]_vars

\* C5: a withdraw request is answered InsufficientFunds only when its
\* amount passed every check and was greater than the balance.
InsufficientOnlyWhenExceeded ==
    [][(OnAccount("withdraw") /\ resp'.outcome = "InsufficientFunds")
       => (/\ Validated(req'.data)
           /\ IsNumber(accounts[req'.account_number].balance)
           /\ NumLt(accounts[req'.account_number].balance,
                    AmountOf(req'.data)))]_vars

\* C6: a request answered with a 4xx status leaves the store as it was: the
\* same account numbers, the same accounts with the same balances, and no
\* account constructed.
FailureKeepsStore ==
    [][(resp'.status \in 400..499)
       => (accounts' = accounts /\ objects' = objects)]_vars

\* A deposit has just been refused as too large, with two accounts held.
FailureSeen ==
    /\ req.op = "deposit"
    /\ resp.status = 400
    /\ resp.outcome = "AmountTooLarge"
    /\ Cardinality(DOMAIN accounts) = 2

\* C7: a deposit or withdraw request ends in success or in one of the nine
\* errors, 404 for AccountNotFound and 400 for the others, and an amount
\* that is not a finite decimal number ends in InvalidAmountFormat.
DepositWithdrawOutcomes ==
    req.op \in {"deposit", "withdraw"} =>
        /\ \/ resp.status = 200 /\ resp.outcome = "OK"
           \/ resp.status = 404 /\ resp.outcome = "AccountNotFound"
           \/ resp.status = 400 /\ resp.outcome \in Taxonomy \ {"AccountNotFound"}
        /\ (/\ req.account_number \in DOMAIN accounts
            /\ req.data.t = "dict"
            /\ AmountKey \in DOMAIN req.data.d
            /\ Decimal(StrOfPy(req.data.d[AmountKey])).kind # "finite")
           => resp.outcome = "InvalidAmountFormat"

\* C8: the account number of a newly created account is not the number of
\* an account created earlier.
NewIdIsFresh ==
    [][(nreq' = nreq + 1 /\ req'.op = "create" /\ resp'.status = 201)
       => resp'.account_number \notin DOMAIN accounts]_vars

\* C9: every account that has been created is still held by the store.
CreatedStaysHeld ==
    \A oid \in 1..objects : \E k \in DOMAIN accounts : accounts[k].oid = oid

\* C10: every account of the mapping is stored under its own account
\* number.
KeyIsAccountNumber ==
    \A k \in DOMAIN accounts : accounts[k].account_number = k

\* Two accounts are held.
TwoAccountsHeld == Cardinality(DOMAIN accounts) = 2 /\ objects = 2

\* The body carries the amount as the JSON string text.
AmountIs(data, text) ==
    /\ data.t = "dict"
    /\ AmountKey \in DOMAIN data.d
    /\ data.d[AmountKey] = PyStr(text)

\* C11: on an account the store holds, deposit and withdraw answer
\* ZeroAmount to the amount 0.00, TooManyDecimalPlaces to 0.001 and 12.345,
\* AmountTooLarge to 100000000, and 200 to 99999999: deposit always,
\* withdraw when the balance is at least that amount.
BoundaryAmounts ==
    [][\A op \in {"deposit", "withdraw"} :
          OnAccount(op) =>
              /\ AmountIs(req'.data, <<"0", ".", "0", "0">>)
                 => (resp'.status = 400 /\ resp'.outcome = "ZeroAmount")
              /\ (\/ AmountIs(req'.data, <<"0", ".", "0", "0", "1">>)
                  \/ AmountIs(req'.data, <<"1", "2", ".", "3", "4", "5">>))
                 => (resp'.status = 400 /\ resp'.outcome = "TooManyDecimalPlaces")
              /\ AmountIs(req'.data, <<"1", "0", "0", "0", "0", "0", "0", "0", "0">>)
                 => (resp'.status = 400 /\ resp'.outcome = "AmountTooLarge")
              /\ (/\ AmountIs(req'.data, <<"9", "9", "9", "9", "9", "9", "9", "9">>)
                  /\ \/ op = "deposit"
                     \/ /\ IsNumber(accounts[req'.account_number].balance)
                        /\ NumLe(AmountOf(req'.data),
                                 accounts[req'.account_number].balance))
                 => (resp'.status = 200 /\ resp'.outcome = "OK")]_vars

UnknownAccountNotFound ==
    [][(nreq' = nreq + 1 /\ req'.op \in {"balance", "deposit", "withdraw"})
       => LET got == AccountManager_get_account(accounts, req'.account_number)
          IN  /\ got.found <=> req'.account_number \in DOMAIN accounts
              /\ got.found => got.account = accounts[req'.account_number]
              /\ ~got.found => got.account = PyNone
              /\ req'.account_number \notin DOMAIN accounts
                 => (/\ resp'.status = 404
                     /\ resp'.outcome = "AccountNotFound"
                     /\ accounts' = accounts)
              /\ req'.account_number \in DOMAIN accounts
                 => resp'.status # 404]_vars

\* A deposit with a valid amount for a number that is no key has been
\* answered 404 while the store holds an account.
UnknownAccountSeen ==
    /\ req.op = "deposit"
    /\ Validated(req.data)
    /\ req.account_number \notin DOMAIN accounts
    /\ accounts # <<>>
    /\ resp.status = 404

----------------------------------------------------------------------------
(* Requests handled at the same time.  app.run serves every request in a   *)
(* thread of its own and neither app.py nor account.py takes a lock, so a  *)
(* thread can be preempted between any two reads and writes of             *)
(* self.balance.  SpecThreads: up to MaxSetup POST /accounts requests,     *)
(* then each thread handles one deposit or withdraw request.               *)

NoneBegun == \A t \in Threads : threads.run[t].pc = "idle"

Finish(t, response) ==
    [threads EXCEPT !.run[t].pc = "done", !.run[t].resp = response]

ThreadSetup == NoneBegun /\ nreq < MaxSetup /\ PostAccounts

\* The handler up to the call of Account.deposit or Account.withdraw, and
\* the test of amount > 0 in Account.deposit.
ThreadBegin(t) ==
    /\ threads.run[t].pc = "idle"
    /\ \E op \in {"deposit", "withdraw"}, id \in PathIds, data \in LedgerBodies :
           LET request == Request(op, id, data)
               got == AccountManager_get_account(accounts, id)
               refused == IF op = "deposit" THEN deposit(accounts, id, data)
                          ELSE withdraw(accounts, id, data)
               begun ==
                   IF got.found /\ Validated(data)
                   THEN Thread(IF op = "withdraw" THEN "check"
                               ELSE IF NumLt(PyZero, AmountOf(data)) THEN "load"
                               ELSE "reply",
                               request, AmountOf(data), PyNone, IdleThread.resp)
                   ELSE Thread("done", request, PyNone, PyNone, refused.resp)
           IN  threads' = [base |-> IF NoneBegun THEN accounts ELSE threads.base,
                           run |-> [threads.run EXCEPT ![t] = begun]]
    /\ UNCHANGED <<accounts, objects, req, resp, nreq, manager>>

\* Account.withdraw: 0 < amount <= self.balance
ThreadCheck(t) ==
    LET r == threads.run[t]
        balance == accounts[r.req.account_number].balance
    IN  /\ r.pc = "check"
        /\ threads' =
               IF ~NumLt(PyZero, r.amount)
               THEN Finish(t, Failure(400, "InsufficientFunds", accounts).resp)
               ELSE IF ~IsNumber(balance) THEN Finish(t, Unhandled(accounts).resp)
               ELSE IF NumLe(r.amount, balance)
               THEN [threads EXCEPT !.run[t].pc = "load"]
               ELSE Finish(t, Failure(400, "InsufficientFunds", accounts).resp)
        /\ UNCHANGED <<accounts, objects, req, resp, nreq, manager>>

\* self.balance += amount and self.balance -= amount: the read
ThreadLoad(t) ==
    LET r == threads.run[t]
    IN  /\ r.pc = "load"
        /\ threads' = [threads EXCEPT
                           !.run[t].pc = "store",
                           !.run[t].tmp = accounts[r.req.account_number].balance]
        /\ UNCHANGED <<accounts, objects, req, resp, nreq, manager>>

\* self.balance += amount and self.balance -= amount: the write
ThreadStore(t) ==
    LET r == threads.run[t]
        id == r.req.account_number
        balance == IF r.req.op = "deposit" THEN PyAdd(r.tmp, r.amount)
                   ELSE PySub(r.tmp, r.amount)
    IN  /\ r.pc = "store"
        /\ IF IsNumber(r.tmp)
           THEN /\ accounts' = Stored(accounts, id,
                                      [accounts[id] EXCEPT !.balance = balance])
                /\ threads' = [threads EXCEPT !.run[t].pc = "reply"]
           ELSE /\ accounts' = accounts
                /\ threads' = Finish(t, Unhandled(accounts).resp)
        /\ UNCHANGED <<objects, req, resp, nreq, manager>>

\* return jsonify({"balance": account.get_balance()})
ThreadReply(t) ==
    LET r == threads.run[t]
    IN  /\ r.pc = "reply"
        /\ threads' = Finish(t, Response(200, "OK", <<>>,
                         Account_get_balance(accounts[r.req.account_number])))
        /\ UNCHANGED <<accounts, objects, req, resp, nreq, manager>>

NextThreads ==
    \/ ThreadSetup
    \/ \E t \in Threads :
           \/ ThreadBegin(t)
           \/ ThreadCheck(t)
           \/ ThreadLoad(t)
           \/ ThreadStore(t)
           \/ ThreadReply(t)

SpecThreads == Init /\ [][NextThreads]_vars

\* The orders in which the threads of S can run one after the other.
Orders(S) ==
    {o \in [1..Cardinality(S) -> S] :
        \A i, j \in 1..Cardinality(S) : o[i] = o[j] => i = j}

\* The account after the requests of the threads of order were handled one
\* after the other, and what each call returned.
RECURSIVE SerialRun(_, _, _, _)
SerialRun(run, self, order, rets) ==
    IF order = <<>> THEN [self |-> self, rets |-> rets]
    ELSE LET t == Head(order)
             done == IF run[t].req.op = "deposit"
                     THEN [ret |-> TRUE,
                           self |-> Account_deposit(self, run[t].amount).self]
                     ELSE Account_withdraw(self, run[t].amount)
         IN  SerialRun(run, done.self, Tail(order), rets @@ (t :> done.ret))

\* C14: when every thread has answered, each account has the balance, and
\* each request the result, that handling the requests on that account one
\* after the other in some order gives.
Serializable ==
    (\A t \in Threads : threads.run[t].pc = "done") =>
        \A k \in DOMAIN accounts :
            LET on == {t \in Threads :
                          /\ threads.run[t].req.account_number = k
                          /\ threads.run[t].amount # PyNone}
            IN  \E o \in Orders(on) :
                    LET serial == SerialRun(threads.run, threads.base[k], o, <<>>)
                    IN  /\ accounts[k].balance = serial.self.balance
                        /\ \A t \in on :
                               (threads.run[t].resp.status = 200) = serial.rets[t]

\* The error of the first of the eight checks that a request fails, in the
\* order the specification gives them, or "pass".
FirstFailure(accts, account_number, data) ==
    IF account_number \notin DOMAIN accts THEN "AccountNotFound"
    ELSE IF data.t # "dict" THEN "MalformedRequest"
    ELSE IF AmountKey \notin DOMAIN data.d THEN "MissingAmount"
    ELSE LET d == Decimal(StrOfPy(data.d[AmountKey]))
         IN  IF d.kind # "finite" THEN "InvalidAmountFormat"
             ELSE IF d.sign = 1 /\ ~DecIsZero(d) THEN "NegativeAmount"
             ELSE IF DecIsZero(d) THEN "ZeroAmount"
             ELSE IF d.exp < -2 THEN "TooManyDecimalPlaces"
             ELSE IF DecGt(d, MAX_AMOUNT) THEN "AmountTooLarge"
             ELSE "pass"

\* C15: a deposit or withdraw request that fails one of the eight checks
\* is answered with the error of the first check it fails and leaves the
\* store as it was; Account.deposit or Account.withdraw has acted only on a
\* request that passes all eight.
ChecksInOrder ==
    [][(nreq' = nreq + 1 /\ req'.op \in {"deposit", "withdraw"})
       => LET failed == FirstFailure(accounts, req'.account_number, req'.data)
          IN  /\ failed # "pass"
                 => (resp'.outcome = failed /\ accounts' = accounts)
              /\ (resp'.outcome \in {"OK", "InsufficientFunds"}
                  \/ accounts' # accounts)
                 => failed = "pass"]_vars

\* C16: a POST /accounts request with a JSON object is answered 201 whether
\* or not the number drawn is already a key.  Afterwards the number maps to
\* the new account and every other entry is as before; when the number was
\* a key the account stored under it is held under no key any more and the
\* number of keys is the same, and otherwise there is one key more.
CreateOverwrites ==
    [][(nreq' = nreq + 1 /\ req'.op = "create" /\ req'.data.t = "dict")
       => LET k == resp'.account_number
          IN  /\ resp'.status = 201
              /\ objects' = objects + 1
              /\ DOMAIN accounts' = DOMAIN accounts \cup {k}
              /\ accounts'[k].oid = objects'
              /\ \A j \in DOMAIN accounts \ {k} : accounts'[j] = accounts[j]
              /\ k \in DOMAIN accounts
                 => (/\ Cardinality(DOMAIN accounts') = Cardinality(DOMAIN accounts)
                     /\ \A j \in DOMAIN accounts' :
                            accounts'[j].oid # accounts[k].oid)
              /\ k \notin DOMAIN accounts
                 => Cardinality(DOMAIN accounts') = Cardinality(DOMAIN accounts) + 1]_vars

\* A second account has just been created under the number of the first.
OverwriteSeen ==
    /\ req.op = "create"
    /\ resp.status = 201
    /\ objects = 2
    /\ DOMAIN accounts = {resp.account_number}
    /\ accounts[resp.account_number].oid = 2

----------------------------------------------------------------------------
(* The Account methods called directly.  SpecAccount: an account made by   *)
(* create_account with one of the balances below, then up to MaxCalls      *)
(* calls of deposit and withdraw on it with any of the amounts below.      *)

MaxCalls == 3

\* 0.0, 100, -5, "abc" and NaN
DomainBalances ==
    {PyFloat(0, {}), PyInt(0, DOfNat(100)), PyInt(1, DOfNat(5)),
     PyStr(<<"a", "b", "c">>), PyNaN}

\* -50.0, 0.0, -0.0, 0.5, 50.0, 200.0 and NaN
DomainAmounts ==
    {PyFloat(1, DOfNat(50)), PyFloat(0, {}), PyFloat(1, {}),
     PyFloat(0, {-1}), PyFloat(0, DOfNat(50)), PyFloat(0, DOfNat(200)), PyNaN}

InitAccount ==
    /\ \E balance \in DomainBalances, draw \in Draws :
           accounts = AccountManager_create_account(<<>>, draw, balance, 1).accounts
    /\ objects = 1
    /\ req = Request("none", <<>>, PyNone)
    /\ resp = Response(0, "none", <<>>, PyNone)
    /\ nreq = 0
    /\ threads = [base |-> <<>>, run |-> [t \in Threads |-> IdleThread]]
    /\ manager = Manager(1, 1, {1})

\* account.deposit(amount): returns None
CallDeposit ==
    /\ nreq < MaxCalls
    /\ \E k \in DOMAIN accounts, amount \in DomainAmounts :
           LET done == Account_deposit(accounts[k], amount)
           IN  /\ req' = Request("Account.deposit", k, amount)
               /\ resp' = Response(0, IF done.raised THEN "raised" ELSE "returned",
                                   <<>>, PyNone)
               /\ accounts' = Stored(accounts, k, done.self)
    /\ nreq' = nreq + 1
    /\ UNCHANGED <<objects, threads, manager>>

\* account.withdraw(amount): returns True or False
CallWithdraw ==
    /\ nreq < MaxCalls
    /\ \E k \in DOMAIN accounts, amount \in DomainAmounts :
           LET done == Account_withdraw(accounts[k], amount)
           IN  /\ req' = Request("Account.withdraw", k, amount)
               /\ resp' = IF done.raised THEN Response(0, "raised", <<>>, PyNone)
                          ELSE Response(0, "returned", <<>>, PyBool(done.ret))
               /\ accounts' = Stored(accounts, k, done.self)
    /\ nreq' = nreq + 1
    /\ UNCHANGED <<objects, threads, manager>>

NextAccount == CallDeposit \/ CallWithdraw

SpecAccount == InitAccount /\ [][NextAccount]_vars

\* C17: Account.deposit with an amount <= 0 returns without an error and
\* leaves the account as it was; Account.withdraw with an amount <= 0, or
\* greater than the balance, returns False and leaves the account as it
\* was, and returns True only when 0 < amount <= balance.
DomainGuards ==
    [][/\ (nreq' = nreq + 1 /\ req'.op = "Account.deposit"
           /\ NumLe(req'.data, PyZero))
          => (resp'.outcome = "returned" /\ accounts' = accounts)
       /\ (nreq' = nreq + 1 /\ req'.op = "Account.withdraw")
          => LET amount == req'.data
                 balance == accounts[req'.account_number].balance
             IN  /\ (\/ NumLe(amount, PyZero)
                     \/ IsNumber(balance) /\ NumLt(balance, amount))
                    => (/\ resp'.outcome = "returned"
                        /\ resp'.balance = PyBool(FALSE)
                        /\ accounts' = accounts)
                 /\ resp'.balance = PyBool(TRUE)
                    => (/\ NumLt(PyZero, amount)
                        /\ IsNumber(balance)
                        /\ NumLe(amount, balance))]_vars

\* A deposit of an amount <= 0 has just returned, after a withdrawal.
DomainGuardSeen ==
    /\ req.op = "Account.deposit"
    /\ NumLe(req.data, PyZero)
    /\ resp.outcome = "returned"
    /\ nreq = 2
    /\ accounts[req.account_number].balance = PyFloat(0, DOfNat(50))

\* C18: a deposit or withdraw request for account X leaves the keys of the
\* mapping, the account number and identity of every account, and every
\* account stored under another key as they were.
OnlyTargetChanges ==
    [][(nreq' = nreq + 1 /\ req'.op \in {"deposit", "withdraw"})
       => (/\ DOMAIN accounts' = DOMAIN accounts
           /\ objects' = objects
           /\ \A k \in DOMAIN accounts :
                  /\ accounts'[k].account_number = accounts[k].account_number
                  /\ accounts'[k].oid = accounts[k].oid
                  /\ k # req'.account_number => accounts'[k] = accounts[k])]_vars

\* A deposit has just changed one of two accounts held.
TargetChangedSeen ==
    /\ req.op = "deposit"
    /\ resp.status = 200
    /\ Cardinality(DOMAIN accounts) = 2
    /\ \E k \in DOMAIN accounts :
           /\ k # req.account_number
           /\ accounts[k].balance # accounts[req.account_number].balance

----------------------------------------------------------------------------
(* The singleton.  SpecSingleton: from the class as account.py defines     *)
(* it, _instance = None, up to MaxRequests steps, each a construction      *)
(* AccountManager() or, once there is an instance, a POST /accounts,       *)
(* balance or deposit request.                                             *)

InitSingleton ==
    /\ accounts = <<>>
    /\ objects = 0
    /\ req = Request("none", <<>>, PyNone)
    /\ resp = Response(0, "none", <<>>, PyNone)
    /\ nreq = 0
    /\ threads = [base |-> <<>>, run |-> [t \in Threads |-> IdleThread]]
    /\ manager = Manager(0, 0, {})

\* AccountManager()
Construct ==
    /\ nreq < MaxRequests
    /\ LET new == AccountManager_new(manager.instance, accounts, manager.made + 1)
       IN  /\ manager' = Manager(new.instance,
                                 IF new.instance = manager.instance
                                 THEN manager.made ELSE manager.made + 1,
                                 manager.refs \cup {new.ret})
           /\ accounts' = new.accounts
    /\ req' = Request("AccountManager", <<>>, PyNone)
    /\ resp' = Response(0, "returned", <<>>, PyNone)
    /\ nreq' = nreq + 1
    /\ UNCHANGED <<objects, threads>>

ManagedCreate == manager.instance # 0 /\ PostAccounts

ManagedBalance == manager.instance # 0 /\ GetBalance

ManagedDeposit == manager.instance # 0 /\ PostDeposit

NextSingleton == Construct \/ ManagedCreate \/ ManagedBalance \/ ManagedDeposit

SpecSingleton == InitSingleton /\ [][NextSingleton]_vars

\* C19: every construction AccountManager() returns the one instance ever
\* made; the first construction starts with an empty mapping, and a later
\* one leaves _instance and the mapping as they were.
SingleStore ==
    [][(nreq' = nreq + 1 /\ req'.op = "AccountManager")
       => (/\ manager'.made = 1
           /\ manager'.refs = {manager'.instance}
           /\ manager.instance = 0 => accounts' = <<>>
           /\ manager.instance # 0
              => (manager'.instance = manager.instance /\ accounts' = accounts))]_vars

\* AccountManager() has just been called with an account in the store.
SecondConstructionSeen ==
    /\ req.op = "AccountManager"
    /\ accounts # <<>>
    /\ manager.made = 1
    /\ manager.refs = {manager.instance}

=============================================================================
